---------------------------- MODULE Spec2Model ----------------------------
(***************************************************************************)
(* Model of the statistical correlation engine, class CorrelationAnalysis  *)
(* (services/analysis/math/correlationAnalysis.ts), and of the phase       *)
(* space reconstruction of class AdvancedAnalysis.                         *)
(*                                                                         *)
(* Numbers.  The engine computes on IEEE-754 doubles.  The model keeps     *)
(* the three kinds of double the claims distinguish: a finite value, an    *)
(* infinity and NaN.  A finite value is an exact rational n/d; rounding    *)
(* is not modelled and a zero is +0 (a -0 could only change the sign of    *)
(* an infinity).  A Pearson coefficient is N / sqrt(P), not a rational in  *)
(* general, and is kept as a sign together with its square.                *)
(*                                                                         *)
(* The continued fraction of incompleteBeta and the erf approximation of   *)
(* normalCDF are transcendental: where the code evaluates them the model   *)
(* draws their value from a small set of samples.  Their short-cuts        *)
(* (x === 0, x === 1) and the propagation of NaN are modelled exactly.     *)
(***************************************************************************)
EXTENDS Integers, Sequences, FiniteSets, TLC

\* ------------------------------------------------------------------ bounds
\* Longest input sequence of the calls on one or two sequences.
MaxLen == 3
\* Largest entry of an input matrix.
MaxEntry == 4

\* -------------------------------------------------------- doubles: rationals
Abs(a) == IF a < 0 THEN -a ELSE a
Sign(a) == IF a < 0 THEN -1 ELSE IF a > 0 THEN 1 ELSE 0

RECURSIVE Gcd(_, _)
Gcd(a, b) == IF b = 0 THEN a ELSE Gcd(b, a % b)

NaN == [k |-> "nan", n |-> 0, d |-> 1]
Inf(s) == [k |-> "inf", n |-> s, d |-> 1]
\* The finite double n/d (d # 0), in lowest terms with d > 0.
Fin(n, d) ==
  LET g == Gcd(Abs(n), Abs(d))
      s == IF d < 0 THEN -1 ELSE 1
  IN [k |-> "fin", n |-> (s * n) \div g, d |-> (s * d) \div g]
Int2F(i) == [k |-> "fin", n |-> i, d |-> 1]

IsNaN(a) == a.k = "nan"
IsFinite(a) == a.k = "fin"
FSign(a) == Sign(a.n)

\* a / b on doubles: 0/0, Inf/Inf and NaN give NaN; a nonzero value over 0
\* gives an infinity.
FDiv(a, b) ==
  IF IsNaN(a) \/ IsNaN(b) THEN NaN
  ELSE IF a.k = "inf" THEN
    (IF b.k = "inf" THEN NaN ELSE Inf(IF b.n < 0 THEN -a.n ELSE a.n))
  ELSE IF b.k = "inf" THEN Int2F(0)
  ELSE IF b.n = 0 THEN (IF a.n = 0 THEN NaN ELSE Inf(Sign(a.n)))
  ELSE Fin(a.n * b.d, a.d * b.n)

\* a * b on doubles: 0 * Inf is NaN.
FMul(a, b) ==
  IF IsNaN(a) \/ IsNaN(b) THEN NaN
  ELSE IF a.k = "inf" \/ b.k = "inf" THEN
    (IF FSign(a) * FSign(b) = 0 THEN NaN ELSE Inf(FSign(a) * FSign(b)))
  ELSE Fin(a.n * b.n, a.d * b.d)

\* a + b on doubles: Inf + -Inf is NaN.
FAdd(a, b) ==
  IF IsNaN(a) \/ IsNaN(b) THEN NaN
  ELSE IF a.k = "inf" THEN
    (IF b.k = "inf" /\ b.n # a.n THEN NaN ELSE a)
  ELSE IF b.k = "inf" THEN b
  ELSE LET g == Gcd(a.d, b.d)
       IN Fin(a.n * (b.d \div g) + b.n * (a.d \div g), a.d * (b.d \div g))

FNeg(a) == [a EXCEPT !.n = -a.n]
FSub(a, b) == FAdd(a, FNeg(b))

\* a < b on doubles: false when either side is NaN.
FLt(a, b) ==
  IF IsNaN(a) \/ IsNaN(b) THEN FALSE
  ELSE IF a.k = "inf" THEN (a.n < 0 /\ ~(b.k = "inf" /\ b.n < 0))
  ELSE IF b.k = "inf" THEN b.n > 0
  ELSE a.n * b.d < b.n * a.d

\* Math.abs(a) > Math.abs(b).
FAbsGt(a, b) ==
  IF IsNaN(a) \/ IsNaN(b) THEN FALSE
  ELSE IF a.k = "inf" THEN b.k # "inf"
  ELSE IF b.k = "inf" THEN FALSE
  ELSE Abs(a.n) * b.d > Abs(b.n) * a.d

\* ------------------------------------------- doubles: signed square roots
\* The double s * sqrt(q): its sign s and its square q (a double >= 0).
SNaN == [s |-> 0, q |-> NaN]
Surd(s, q) == IF IsNaN(q) THEN SNaN
              ELSE IF q.k = "fin" /\ q.n = 0 THEN [s |-> 0, q |-> q]
              ELSE [s |-> s, q |-> q]
SIsNaN(a) == IsNaN(a.q)
SIsFinite(a) == IsFinite(a.q)
\* Math.sqrt(a): NaN for NaN and for a negative argument.
FSqrt(a) == IF IsNaN(a) \/ FSign(a) < 0 THEN SNaN ELSE Surd(1, a)
\* a * b of two such doubles.
SMul(a, b) ==
  IF SIsNaN(a) \/ SIsNaN(b) THEN SNaN
  ELSE Surd(a.s * b.s, FMul(a.q, b.q))
\* a * a as a rational double.
SSquare(a) == a.q
\* The rational double a as a signed square root.
F2S(a) == IF IsNaN(a) THEN SNaN ELSE Surd(FSign(a), FMul(a, a))
\* The integer square root of a perfect square.
ISqrt(n) == CHOOSE r \in 0..n : r * r = n
\* The signed square root a as a rational double, for a rational a.
S2F(a) ==
  IF SIsNaN(a) THEN NaN
  ELSE IF ~SIsFinite(a) THEN Inf(a.s)
  ELSE Fin(a.s * ISqrt(a.q.n), ISqrt(a.q.d))
\* a - b of two signed square roots whose product is rational (as it is for
\* rxy and rxz * ryz): with p = a * b, a - b = (a * a - p) / a.
SSub(a, b) ==
  IF SIsNaN(a) \/ SIsNaN(b) THEN SNaN
  ELSE IF a.s = 0 THEN [b EXCEPT !.s = -b.s]
  ELSE LET p == S2F(Surd(a.s * b.s, FMul(a.q, b.q)))
           num == FSub(a.q, p)
       IN Surd(FSign(num) * a.s, FDiv(FMul(num, num), a.q))
\* -1 <= a <= 1.
SInUnit(a) == SIsFinite(a) /\ a.q.n <= a.q.d
SIsOne(a) == SIsFinite(a) /\ a.s = 1 /\ a.q.n = a.q.d
SIsMinusOne(a) == SIsFinite(a) /\ a.s = -1 /\ a.q.n = a.q.d

\* ------------------------------------------------------- special functions
\* Values the continued fraction of incompleteBeta may evaluate to for
\* 0 < x < 1, and values of normalCDF for a finite argument: samples that
\* put the p-value exactly at the significance threshold and just below it.
BetaSamples == {Fin(19, 20), Fin(24, 25)}
CdfSamples == {Fin(39, 40), Fin(49, 50)}

\* betaCF declares `const aa` and assigns to aa again in the same iteration.
\* Run as written (a const binding), the assignment throws a TypeError in the
\* first iteration; emitted for a target without const (a var), the loop
\* runs.  The build decides; the model allows both.
Thrown == [k |-> "throw", n |-> 0, d |-> 1]
HasThrown(a) == a.k = "throw"
BetaOutcomes == BetaSamples \cup {Thrown}

\* betaCF(x, a, b) as incompleteBeta uses it, bt * betaCF / a included: cf
\* is the outcome of the loop.  A NaN x passes every comparison and comes
\* out NaN; a non-positive a or b makes gammaLn, and with it the result,
\* non-finite.
betaCF(x, a, b, cf) ==
  IF HasThrown(cf) THEN Thrown
  ELSE IF ~IsFinite(x) THEN NaN
  ELSE IF a.n <= 0 \/ b.n <= 0 \/ x.n < 0 \/ x.n > x.d THEN NaN
  ELSE cf

\* incompleteBeta(x, a, b): 0 and 1 are returned for x === 0 and x === 1
\* before anything is evaluated.
incompleteBeta(x, a, b, cf) ==
  IF IsFinite(x) /\ x.n = 0 THEN Int2F(0)
  ELSE IF IsFinite(x) /\ x.n = x.d THEN Int2F(1)
  ELSE betaCF(x, a, b, cf)

\* calculateTDistributionPValue(t, df); t is a signed square root.
calculateTDistributionPValue(t, df, cf) ==
  LET x == FDiv(Int2F(df), FAdd(Int2F(df), SSquare(t)))
      ib == incompleteBeta(x, Fin(df, 2), Fin(1, 2), cf)
  IN IF HasThrown(ib) THEN Thrown ELSE FSub(Int2F(1), ib)

\* calculateFDistributionPValue(F, df1, df2).
calculateFDistributionPValue(F, df1, df2, cf) ==
  LET x == FDiv(Int2F(df2), FAdd(Int2F(df2), FMul(Int2F(df1), F)))
  IN incompleteBeta(x, Fin(df2, 2), Fin(df1, 2), cf)

\* normalCDF(v) for v = |z| >= 0; cdf is the value of the erf approximation
\* at a finite argument.  erf(Infinity) is 1 and erf(NaN) is NaN.
normalCDF(v, cdf) ==
  IF SIsNaN(v) THEN NaN
  ELSE IF ~SIsFinite(v) THEN Int2F(1)
  ELSE cdf

\* ------------------------------------------------------------ the results
\* The threshold of `significant: pValue < 0.05`.
Threshold == Fin(1, 20)
\* Significant with the comparison not strict: pValue <= 0.05.
Significant_NotStrict(pValue) == FLt(pValue, Threshold) \/ pValue = Threshold
Significant(pValue) == FLt(pValue, Threshold)

Returned(c, p) ==
  [st |-> "returned", err |-> "none", coefficient |-> c, pValue |-> p,
   significant |-> Significant(p), matrix |-> << >>, value |-> NaN]
\* The call ends with an exception of type e.
Threw(e) ==
  [st |-> "threw", err |-> e, coefficient |-> SNaN, pValue |-> NaN,
   significant |-> FALSE, matrix |-> << >>, value |-> NaN]
\* matrixInverse returns a matrix, reconstructPhaseSpace a list of vectors:
\* a number[][].
ReturnedMatrix(m) ==
  [st |-> "returned", err |-> "none", coefficient |-> SNaN, pValue |-> NaN,
   significant |-> FALSE, matrix |-> m, value |-> NaN]
\* lagrangeInterpolation returns a number.
ReturnedNumber(v) ==
  [st |-> "returned", err |-> "none", coefficient |-> SNaN, pValue |-> NaN,
   significant |-> FALSE, matrix |-> << >>, value |-> v]

\* ---------------------------------------------------------------- Pearson
RECURSIVE Sum(_, _)
\* values.reduce((a, b) => a + b) over the first k elements.
Sum(values, k) == IF k = 0 THEN 0 ELSE Sum(values, k - 1) + values[k]

RECURSIVE SumProducts(_, _, _, _, _, _)
\* The loop's sums, scaled by n * n to stay in the integers: with
\* aMean = aTotal / n, n * (a[i] - aMean) = n * a[i] - aTotal.  This is the
\* sum over i < k of n * (a[i] - aMean) * n * (b[i] - bMean).
SumProducts(a, aTotal, b, bTotal, n, k) ==
  IF k = 0 THEN 0
  ELSE SumProducts(a, aTotal, b, bTotal, n, k - 1)
         + (n * a[k] - aTotal) * (n * b[k] - bTotal)

\* a / b of two signed square roots.
SDiv(a, b) ==
  IF SIsNaN(a) \/ SIsNaN(b) THEN SNaN
  ELSE Surd(a.s * (IF b.s < 0 THEN -1 ELSE 1), FDiv(a.q, b.q))

\* PearsonR with the square root left out:
\* numerator / (xDenominator * yDenominator).
PearsonR_NoSqrt(x, y) ==
  LET n == Len(x)
      xTotal == Sum(x, Len(x))
      yTotal == Sum(y, Len(y))
  IN IF Len(y) < n THEN SNaN
     ELSE
       LET numerator == Fin(SumProducts(x, xTotal, y, yTotal, n, n), n * n)
           xDenominator == Fin(SumProducts(x, xTotal, x, xTotal, n, n), n * n)
           yDenominator == Fin(SumProducts(y, yTotal, y, yTotal, n, n), n * n)
       IN F2S(FDiv(numerator, FMul(xDenominator, yDenominator)))

\* r = numerator / Math.sqrt(xDenominator * yDenominator), for n >= 1 and
\* a non-empty y.  n is x.length; yMean is the sum of all of y over n.  When
\* y is shorter than x, y[i] is undefined for some i < n and the sums it
\* enters, and r with them, are NaN.
PearsonR(x, y) ==
  LET n == Len(x)
      xTotal == Sum(x, Len(x))
      yTotal == Sum(y, Len(y))
  IN IF Len(y) < n THEN SNaN
     ELSE
       LET numerator == Fin(SumProducts(x, xTotal, y, yTotal, n, n), n * n)
           xDenominator == Fin(SumProducts(x, xTotal, x, xTotal, n, n), n * n)
           yDenominator == Fin(SumProducts(y, yTotal, y, yTotal, n, n), n * n)
       IN SDiv(F2S(numerator), FSqrt(FMul(xDenominator, yDenominator)))

\* tStat = r * Math.sqrt(df / (1 - r * r)), computed with no test of the
\* denominator.
TStat(r, df) ==
  SMul(r, FSqrt(FDiv(Int2F(df), FSub(Int2F(1), SSquare(r)))))

\* x.reduce((a, b) => a + b) of an empty array throws a TypeError.
calculatePearsonCorrelation(x, y, cf) ==
  IF Len(x) = 0 \/ Len(y) = 0 THEN Threw("TypeError")
  ELSE LET n == Len(x)
           r == PearsonR(x, y)
           tStat == TStat(r, n - 2)
           pValue == calculateTDistributionPValue(tStat, n - 2, cf)
       IN IF HasThrown(pValue) THEN Threw("TypeError")
          ELSE Returned(r, pValue)

\* --------------------------------------------------------------- Spearman
RECURSIVE Insert(_, _)
\* v put into the ascending sequence s.
Insert(s, v) ==
  IF s = << >> THEN <<v>>
  ELSE IF v < Head(s) THEN <<v>> \o s
  ELSE <<Head(s)>> \o Insert(Tail(s), v)

RECURSIVE SortAsc(_)
\* values.slice().sort((a, b) => a - b).
SortAsc(values) ==
  IF values = << >> THEN << >>
  ELSE Insert(SortAsc(Tail(values)), Head(values))

\* sorted.indexOf(v), 0-based: the first position that holds v.
IndexOf(sorted, v) ==
  (CHOOSE i \in 1..Len(sorted) :
     sorted[i] = v /\ \A j \in 1..(i - 1) : sorted[j] # v) - 1

\* The rank of one value: sorted.indexOf(v) + 1.
RankOf(sorted, v) == IndexOf(sorted, v) + 1

\* values after calculateRanks, sorted in place: values.sort(...).
ValuesAfterRanks_SortInPlace(values) == SortAsc(values)
\* The caller's array after calculateRanks: sort works in place, on the copy
\* that values.slice() made, and map reads values; values is not written.
ValuesAfterRanks(values) == values

calculateRanks(values) ==
  LET sorted == SortAsc(values)
  IN [i \in 1..Len(values) |-> RankOf(sorted, values[i])]

calculateSpearmanCorrelation(x, y, cf) ==
  calculatePearsonCorrelation(calculateRanks(x), calculateRanks(y), cf)

\* ---------------------------------------------------------------- Kendall
\* The sign of xDiff * yDiff for the pair (i, j); 0 too when an element is
\* undefined (NaN compares false both ways).
PairSign(x, y, i, j) ==
  IF i > Len(y) \/ j > Len(y) THEN 0
  ELSE Sign((x[j] - x[i]) * (y[j] - y[i]))

\* The inner loop started at j = 0 instead of j = i + 1.
Pairs_Ordered(n) == {p \in (1..n) \X (1..n) : p[1] # p[2]}
\* The pairs i < j < n the two loops visit.
Pairs(n) == {p \in (1..n) \X (1..n) : p[1] < p[2]}
Concordant(x, y) ==
  Cardinality({p \in Pairs(Len(x)) : PairSign(x, y, p[1], p[2]) > 0})
Discordant(x, y) ==
  Cardinality({p \in Pairs(Len(x)) : PairSign(x, y, p[1], p[2]) < 0})

\* tau = (concordant - discordant) / (n * (n - 1) / 2).
KendallTau(x, y) ==
  LET n == Len(x)
  IN FDiv(Int2F(Concordant(x, y) - Discordant(x, y)), Fin(n * (n - 1), 2))

calculateKendallTau(x, y, cdf) ==
  LET n == Len(x)
      tau == KendallTau(x, y)
      var0 == FDiv(Int2F(4 * n + 10), Int2F(9 * n * (n - 1)))
      z == SDiv(F2S(tau), FSqrt(var0))
      pValue == FMul(Int2F(2),
                     FSub(Int2F(1), normalCDF([z EXCEPT !.s = Abs(z.s)], cdf)))
  IN Returned(F2S(tau), pValue)

\* ---------------------------------------------------------------- partial
calculatePartialCorrelation(x, y, z, cf) ==
  LET pxy == calculatePearsonCorrelation(x, y, cf)
      pxz == calculatePearsonCorrelation(x, z, cf)
      pyz == calculatePearsonCorrelation(y, z, cf)
  IN IF pxy.st = "threw" THEN pxy
     ELSE IF pxz.st = "threw" THEN pxz
     ELSE IF pyz.st = "threw" THEN pyz
     ELSE
       LET rxy == pxy.coefficient
           rxz == pxz.coefficient
           ryz == pyz.coefficient
           coefficient ==
             SDiv(SSub(rxy, SMul(rxz, ryz)),
                  FSqrt(FMul(FSub(Int2F(1), SSquare(rxz)),
                             FSub(Int2F(1), SSquare(ryz)))))
           n == Len(x)
           tStat == TStat(coefficient, n - 3)
           pValue == calculateTDistributionPValue(tStat, n - 3, cf)
       IN IF HasThrown(pValue) THEN Threw("TypeError")
          ELSE Returned(coefficient, pValue)

\* --------------------------------------------------------- linear algebra
\* A matrix is a sequence of rows, a row a sequence of doubles.
\* i === j ? 1 : 0, the right half of the augmented matrix.
Identity(n) == [i \in 1..n |-> [j \in 1..n |-> Int2F(IF i = j THEN 1 ELSE 0)]]
Augment(matrix) ==
  LET n == Len(matrix)
  IN [i \in 1..n |-> matrix[i] \o Identity(n)[i]]

RECURSIVE MaxRowFrom(_, _, _, _)
\* The inner loop over j = from..n: a later row replaces maxRow only when
\* its entry in column i is strictly larger in magnitude.
MaxRowFrom(augmented, i, from, maxRow) ==
  IF from > Len(augmented) THEN maxRow
  ELSE MaxRowFrom(augmented, i, from + 1,
         IF FAbsGt(augmented[from][i], augmented[maxRow][i])
         THEN from ELSE maxRow)
MaxRow(augmented, i) == MaxRowFrom(augmented, i, i + 1, i)

\* The row swap left out.
SwapRows_None(augmented, i, maxRow) == augmented
\* [augmented[i], augmented[maxRow]] = [augmented[maxRow], augmented[i]].
SwapRows(augmented, i, maxRow) ==
  [augmented EXCEPT ![i] = augmented[maxRow], ![maxRow] = augmented[i]]

\* augmented[i][j] /= pivot for j >= i, with no test of the pivot.
DividePivotRow(augmented, i) ==
  LET pivot == augmented[i][i]
  IN [augmented EXCEPT ![i] =
        [j \in 1..Len(augmented[i]) |->
           IF j >= i THEN FDiv(augmented[i][j], pivot) ELSE augmented[i][j]]]

\* The elimination in the rows below the pivot row only.
EliminateColumn_BelowOnly(augmented, i) ==
  [j \in 1..Len(augmented) |->
     IF j <= i THEN augmented[j]
     ELSE LET factor == augmented[j][i]
          IN [k \in 1..Len(augmented[j]) |->
                IF k >= i
                THEN FSub(augmented[j][k], FMul(factor, augmented[i][k]))
                ELSE augmented[j][k]]]
\* augmented[j][k] -= factor * augmented[i][k] for every row j # i, k >= i.
EliminateColumn(augmented, i) ==
  [j \in 1..Len(augmented) |->
     IF j = i THEN augmented[i]
     ELSE LET factor == augmented[j][i]
          IN [k \in 1..Len(augmented[j]) |->
                IF k >= i
                THEN FSub(augmented[j][k], FMul(factor, augmented[i][k]))
                ELSE augmented[j][k]]]

\* One pass of the outer loop, for column i.
EliminationStep(augmented, i) ==
  EliminateColumn(
    DividePivotRow(SwapRows(augmented, i, MaxRow(augmented, i)), i), i)

RECURSIVE Eliminate(_, _)
\* The outer loop for columns i..n.
Eliminate(augmented, i) ==
  IF i > Len(augmented) THEN augmented
  ELSE Eliminate(EliminationStep(augmented, i), i + 1)

\* augmented.map(row => row.slice(n)).
RightHalf(augmented) ==
  LET n == Len(augmented)
  IN [i \in 1..n |-> [j \in 1..n |-> augmented[i][n + j]]]

matrixInverse(matrix) == RightHalf(Eliminate(Augment(matrix), 1))

\* The arrays of a call of matrixInverse as objects, <<name, 0>> the outer
\* array and <<name, i>> its row i: the caller's matrix; augmented, which
\* map builds with a new array [...row, ...] per row, the only object the
\* swap, the division and the elimination write to; and the returned
\* matrix, which map builds with a new array row.slice(n) per row.
InputObjects(n) == {<<"matrix", i>> : i \in 0..n}
WrittenByInverse(n) == {<<"augmented", i>> : i \in 0..n}
ResultObjects(n) == {<<"result", i>> : i \in 0..n}

\* --------------------------------------------------------------- multiple
\* createCorrelationMatrix(variables): the result of the pairwise call for
\* each cell; cell (i, j) and cell (j, i) hold the call for the pair with
\* the smaller index first.
createCorrelationMatrix(variables, cf) ==
  [i \in 1..Len(variables) |-> [j \in 1..Len(variables) |->
     calculatePearsonCorrelation(variables[IF i <= j THEN i ELSE j],
                                 variables[IF i <= j THEN j ELSE i], cf)]]
\* An await of a rejected pairwise call rejects createCorrelationMatrix.
AnyThrew(results) ==
  \E i, j \in 1..Len(results) : results[i][j].st = "threw"

RECURSIVE InnerSum(_, _, _)
\* RxxInv[i].reduce((sum2, rxx, j) => sum2 + rxx * Ryx[j], 0) over the
\* first j entries of the row.
InnerSum(row, Ryx, j) ==
  IF j = 0 THEN Int2F(0)
  ELSE FAdd(InnerSum(row, Ryx, j - 1), FMul(row[j], Ryx[j]))

RECURSIVE OuterSum(_, _, _)
\* Ryx.reduce((sum, ryx, i) => sum + ryx * (the inner sum of row i), 0)
\* over the first i entries of Ryx.
OuterSum(Ryx, RxxInv, i) ==
  IF i = 0 THEN Int2F(0)
  ELSE FAdd(OuterSum(Ryx, RxxInv, i - 1),
            FMul(Ryx[i], InnerSum(RxxInv[i], Ryx, Len(Ryx))))

\* With at most one independent Rxx is empty or the 1 x 1 matrix of a
\* variable's correlation with itself, and the quadratic form
\* Ryx * RxxInv * Ryx has at most the one term ryx * rxxInv * ryx, the
\* square of ryx times rxxInv.  With more independents the two reduce
\* calls are evaluated on the coefficients as rational doubles.
calculateMultipleCorrelation(dependent, independents, cf) ==
  LET n == Len(dependent)
      p == Len(independents)
      correlationMatrix ==
        createCorrelationMatrix(<<dependent>> \o independents, cf)
  IN IF AnyThrew(correlationMatrix) THEN Threw("TypeError")
     ELSE
       LET Ryx == [i \in 1..p |-> correlationMatrix[1][i + 1].coefficient]
           Rxx == [i \in 1..p |-> [j \in 1..p |->
                     S2F(correlationMatrix[i + 1][j + 1].coefficient)]]
           RxxInv == matrixInverse(Rxx)
           form == IF p = 0 THEN Int2F(0)
                   ELSE IF p = 1
                   THEN FAdd(Int2F(0), FMul(SSquare(Ryx[1]),
                                            FAdd(Int2F(0), RxxInv[1][1])))
                   ELSE OuterSum([i \in 1..p |-> S2F(Ryx[i])], RxxInv, p)
           R == FSqrt(form)
           F == FDiv(FDiv(SSquare(R), Int2F(p)),
                     FDiv(FSub(Int2F(1), SSquare(R)), Int2F(n - p - 1)))
           pValue == calculateFDistributionPValue(F, p, n - p - 1, cf)
       IN IF HasThrown(pValue) THEN Threw("TypeError")
          ELSE Returned(R, pValue)

\* ------------------------------------------------------------ phase space
\* AdvancedAnalysis.reconstructPhaseSpace (time delay embedding).
\* timeSeries[index]: <<v>> for the element v, << >> for undefined (an
\* index before the first or after the last element).
ElementAt(timeSeries, index) ==
  IF index \in 0..(Len(timeSeries) - 1) THEN <<timeSeries[index + 1]>>
  ELSE << >>

\* N taken as length - dimension * delay.
VectorCount_WholeSpan(length, dimension, delay) == length - dimension * delay
\* N = timeSeries.length - (dimension - 1) * delay.
VectorCount(length, dimension, delay) == length - (dimension - 1) * delay

\* The two loops: i < N and d < dimension; no loop runs when its bound is
\* zero or negative, and nothing is tested before them.
reconstructPhaseSpace(timeSeries, dimension, delay) ==
  LET N == VectorCount(Len(timeSeries), dimension, delay)
  IN [i \in 1..N |-> [d \in 1..dimension |->
        ElementAt(timeSeries, (i - 1) + (d - 1) * delay)]]

\* ------------------------------------------------------------ Runge-Kutta
\* AdvancedAnalysis.rungeKutta4.  The right-hand side f(t, y) is an argument
\* of the call: here one of y' = 1, y' = t and y' = y.
Rhs(f, t, y) ==
  IF f = "one" THEN Int2F(1) ELSE IF f = "time" THEN t ELSE y

\* Math.ceil of the finite double n/d (d > 0).
Ceil(a) == -((-a.n) \div a.d)

Half(a) == FDiv(a, Int2F(2))
\* The sum of the stage increments with all four weights 1, over 4.
Increment_EqualWeights(k1, k2, k3, k4) ==
  FDiv(FAdd(FAdd(FAdd(k1, k2), k3), k4), Int2F(4))
\* (k1 + 2*k2 + 2*k3 + k4) / 6.
Increment(k1, k2, k3, k4) ==
  FDiv(FAdd(FAdd(FAdd(k1, FMul(Int2F(2), k2)), FMul(Int2F(2), k3)), k4),
       Int2F(6))

\* One pass of the loop: y[i + 1] from t[i] and y[i].
RKNext(f, t, y, h) ==
  LET k1 == FMul(h, Rhs(f, t, y))
      k2 == FMul(h, Rhs(f, FAdd(t, Half(h)), FAdd(y, Half(k1))))
      k3 == FMul(h, Rhs(f, FAdd(t, Half(h)), FAdd(y, Half(k2))))
      k4 == FMul(h, Rhs(f, FAdd(t, h), FAdd(y, k3)))
  IN FAdd(y, Increment(k1, k2, k3, k4))

RECURSIVE RKTimes(_, _, _)
\* t[i]: t[0] = t0, t[i + 1] = t[i] + h.
RKTimes(t0, h, i) == IF i = 0 THEN t0 ELSE FAdd(RKTimes(t0, h, i - 1), h)

RECURSIVE RKValues(_, _, _, _, _)
\* y[i]: y[0] = y0, y[i + 1] from the pass for i.
RKValues(f, y0, t0, h, i) ==
  IF i = 0 THEN y0
  ELSE RKNext(f, RKTimes(t0, h, i - 1), RKValues(f, y0, t0, h, i - 1), h)

\* n = Math.ceil((tn - t0) / h), for finite arguments and h # 0.
\* new Array(n + 1) throws a RangeError for a negative length; with n <= 0
\* the loop does not run and t[0], y[0] are the only elements.  The result
\* {t, y} is the pair <<t, y>>.
rungeKutta4(f, y0, t0, tn, h) ==
  LET n == Ceil(FDiv(FSub(tn, t0), h))
      last == IF n > 0 THEN n ELSE 0
  IN IF n + 1 < 0 THEN Threw("RangeError")
     ELSE ReturnedMatrix(
            <<[i \in 1..(last + 1) |-> RKTimes(t0, h, i - 1)],
              [i \in 1..(last + 1) |-> RKValues(f, y0, t0, h, i - 1)]>>)

\* ----------------------------------------------------------- interpolation
\* The test `i !== j` of the inner loop, and the loop without it.
Skips_Nothing(i, j) == FALSE
Skips(i, j) == i = j

RECURSIVE Term(_, _, _, _)
\* term after the inner loop has passed j = 1..k: knownPoints[i].y times
\* (targetX - x[j]) / (x[i] - x[j]) for each j other than i.
Term(knownPoints, targetX, i, k) ==
  IF k = 0 THEN knownPoints[i].y
  ELSE LET term == Term(knownPoints, targetX, i, k - 1)
       IN IF Skips(i, k) THEN term
          ELSE FMul(term,
                    FDiv(FSub(targetX, knownPoints[k].x),
                         FSub(knownPoints[i].x, knownPoints[k].x)))

RECURSIVE LagrangeSum(_, _, _)
\* result after the outer loop has passed i = 1..k.
LagrangeSum(knownPoints, targetX, k) ==
  IF k = 0 THEN Int2F(0)
  ELSE FAdd(LagrangeSum(knownPoints, targetX, k - 1),
            Term(knownPoints, targetX, k, Len(knownPoints)))

\* AdvancedAnalysis.lagrangeInterpolation.
lagrangeInterpolation(knownPoints, targetX) ==
  ReturnedNumber(LagrangeSum(knownPoints, targetX, Len(knownPoints)))

\* ---------------------------------------------------------------- spectrum
\* Math.max(...values): -Infinity for no values, NaN if any value is NaN.
RECURSIVE MaxOf(_)
MaxOf(values) ==
  IF Len(values) = 0 THEN Inf(-1)
  ELSE LET v == values[Len(values)]
           m == MaxOf(SubSeq(values, 1, Len(values) - 1))
       IN IF IsNaN(v) \/ IsNaN(m) THEN NaN ELSE IF FLt(m, v) THEN v ELSE m

\* amplitudes[i] > threshold, and the comparison with >= in its place.
Exceeds_OrEquals(a, threshold) == FLt(threshold, a) \/ a = threshold
Exceeds(a, threshold) == FLt(threshold, a)

RECURSIVE FilterByAmplitude(_, _, _, _)
\* frequencies.filter((_, i) => amplitudes[i] > threshold), over the first
\* k frequencies.
FilterByAmplitude(frequencies, amplitudes, threshold, k) ==
  IF k = 0 THEN << >>
  ELSE LET rest == FilterByAmplitude(frequencies, amplitudes, threshold, k - 1)
       IN IF Exceeds(amplitudes[k], threshold)
          THEN Append(rest, frequencies[k]) ELSE rest

\* AdvancedAnalysis.findDominantFrequencies.
findDominantFrequencies(frequencies, amplitudes) ==
  LET threshold == FMul(MaxOf(amplitudes), Fin(1, 10))
  IN FilterByAmplitude(frequencies, amplitudes, threshold, Len(frequencies))

\* AdvancedAnalysis.performFFT.  The transform is TensorFlow's: amplitudes
\* is what tf.abs(fft).array() delivers for the series, one magnitude for
\* each of its n elements.  The result {frequencies, amplitudes,
\* dominantFrequencies} is the triple of the three.
performFFT(timeSeries, amplitudes) ==
  LET n == Len(timeSeries)
      frequencies == [i \in 1..n |-> FMul(Int2F(i - 1), FDiv(Int2F(1), Int2F(n)))]
  IN ReturnedMatrix(<<frequencies, amplitudes,
                      findDominantFrequencies(frequencies, amplitudes)>>)

\* ------------------------------------------------------------- the engine
\* op: the call in progress; args: its arguments; res: what it returned or
\* threw; ranks: the rank sequences a Spearman call computed; mem: the
\* caller's arrays when the call has ended, the objects the call wrote to
\* and the objects it returned; hist: what the caller keeps of an earlier
\* call, to compare a later one with.
VARIABLES op, args, res, ranks, mem, hist, task, loop
vars == <<op, args, res, ranks, mem, hist, task, loop>>

\* The input sequences of a call: every sequence of at most MaxLen values
\* out of three.
Values == {0, 1, 2}
Inputs == UNION {[1..n -> Values] : n \in 0..MaxLen}
\* The three sequences of a partial correlation: of one length, at most 4,
\* over two values.
Bits == {0, 1}
TripleLengths == {0, 1, 2, 3, 4}
Triples ==
  UNION {[1..n -> Bits] \X [1..n -> Bits] \X [1..n -> Bits] :
           n \in TripleLengths}
\* A dependent with two independents: three sequences of one length, 2 or
\* 3, over two values (their pairwise coefficients are rational or NaN).
PairLengths == {2, 3}
MultipleCalls ==
  {<<d, << >>>> : d \in Inputs}
    \cup {<<d, <<x1>>>> : d \in Inputs, x1 \in Inputs}
    \cup UNION {{<<d, <<x1, x2>>>> :
                   d \in [1..n -> Bits], x1 \in [1..n -> Bits],
                   x2 \in [1..n -> Bits]} : n \in PairLengths}
\* The pairs (x, a * x + b) of four elements: long enough for a tie in x
\* next to two more distinct values.
Slopes == {-2, -1, 1, 2}
Intercepts == {0, 1, 2}
LinearLengths == {4}
Linear(x, a, b) == [i \in 1..Len(x) |-> a * x[i] + b]
LinearPairs ==
  {<<x, Linear(x, a, b)>> :
     x \in UNION {[1..n -> Values] : n \in LinearLengths},
     a \in Slopes, b \in Intercepts}
\* The calls of reconstructPhaseSpace: a series out of Inputs or the series
\* 0, 1, ..., n - 1 of up to ten elements, with a dimension and a delay.
RampLengths == {4, 5, 6, 7, 8, 9, 10}
Ramp(n) == [i \in 1..n |-> i - 1]
Series == Inputs \cup {Ramp(n) : n \in RampLengths}
Dimensions == {0, 1, 2, 3, 4}
Delays == {-1, 0, 1, 2, 3}
\* The series given to performFFT and the magnitudes TensorFlow may deliver.
SpectrumLengths == {1, 2, 3, 4}
Magnitudes == {Int2F(0), Int2F(1), Int2F(5), Int2F(10)}
\* The points given to lagrangeInterpolation (x may repeat) and the targets.
Abscissas == {0, 1, 2}
Ordinates == {1, 2}
PointCounts == {0, 1, 2, 3}
Points == [x : {Int2F(v) : v \in Abscissas}, y : {Int2F(v) : v \in Ordinates}]
PointLists == UNION {[1..n -> Points] : n \in PointCounts}
Targets == {Int2F(0), Int2F(1), Int2F(2), Int2F(3), Fin(1, 2)}
\* The calls of rungeKutta4.
RhsNames == {"one", "time", "self"}
StartValues == {Int2F(0), Int2F(1)}
StartTimes == {Int2F(0), Int2F(1)}
EndTimes == {Int2F(0), Int2F(1), Fin(3, 2)}
StepSizes == {Fin(1, 2), Int2F(1), Fin(3, 2), Int2F(2)}
\* The input matrices: square; of dimension 0, 1 or 2 with entries in
\* 0..MaxEntry, and of dimension 3 with entries 0 and 1.
Dims == {0, 1, 2}
BitDims == {3}
Matrices ==
  UNION {[1..n -> [1..n -> 0..MaxEntry]] : n \in Dims}
    \cup UNION {[1..n -> [1..n -> Bits]] : n \in BitDims}
ToDoubles(m) == [i \in 1..Len(m) |-> [j \in 1..Len(m) |-> Int2F(m[i][j])]]

NoArgs == [x |-> << >>, y |-> << >>, z |-> << >>, ind |-> << >>, m |-> << >>,
           dimension |-> 0, delay |-> 0,
           f |-> "none", y0 |-> NaN, t0 |-> NaN, tn |-> NaN, h |-> NaN,
           knownPoints |-> << >>, targetX |-> NaN]
NoRanks == [x |-> << >>, y |-> << >>]
NoMem == [x |-> << >>, y |-> << >>, z |-> << >>, ind |-> << >>,
          written |-> {}, returned |-> {}]
NoResult == [st |-> "none", err |-> "none", coefficient |-> SNaN,
             pValue |-> NaN, significant |-> FALSE, matrix |-> << >>,
             value |-> NaN]
\* The caller keeps nothing.  special: the outcome of betaCF and the value
\* of normalCDF; between: the calls made since the one kept (2: two or more).
NoHist == [op |-> "none", args |-> NoArgs, res |-> NoResult, between |-> 0,
           special |-> [cf |-> NaN, cdf |-> NaN]]
\* No asynchronous call is in progress.  pc: the await the call is suspended
\* at, or "done"; k: the number of variables; i, j: the loop indices of
\* createCorrelationMatrix; matrix: its buffer; writers: for each cell the
\* pairwise computations that have written it; interleaved: how often
\* another task's code has run since the call started.
NoTask == [op |-> "none", pc |-> "idle", k |-> 0, i |-> 0, j |-> 0,
           matrix |-> << >>, writers |-> << >>, interleaved |-> 0]
\* betaCF is not running.  build: whether the emitted code keeps `const aa`;
\* m: the iterations entered; c, d: the magnitudes of the two running
\* values; converged: the outcome of the last test of del.
NoLoop == [pc |-> "idle", build |-> "none", x |-> NaN, m |-> 0,
           c |-> "fine", d |-> "fine", converged |-> FALSE,
           dividedByZero |-> FALSE, result |-> NaN]

Init ==
  /\ op = "idle"
  /\ args = NoArgs
  /\ res = NoResult
  /\ ranks = NoRanks
  /\ mem = NoMem
  /\ hist = NoHist
  /\ task = NoTask
  /\ loop = NoLoop

Pearson ==
  /\ op = "idle"
  /\ \E x \in Inputs, y \in Inputs, cf \in BetaOutcomes :
       /\ args' = [NoArgs EXCEPT !.x = x, !.y = y]
       /\ res' = calculatePearsonCorrelation(x, y, cf)
       /\ mem' = [NoMem EXCEPT !.x = x, !.y = y]
  /\ op' = "pearson"
  /\ ranks' = NoRanks
  /\ UNCHANGED <<hist, task, loop>>

Spearman ==
  /\ op = "idle"
  /\ \E xy \in (Inputs \X Inputs) \cup LinearPairs, cf \in BetaOutcomes :
       /\ args' = [NoArgs EXCEPT !.x = xy[1], !.y = xy[2]]
       /\ res' = calculateSpearmanCorrelation(xy[1], xy[2], cf)
       /\ ranks' = [x |-> calculateRanks(xy[1]), y |-> calculateRanks(xy[2])]
       /\ mem' = [NoMem EXCEPT !.x = ValuesAfterRanks(xy[1]),
                               !.y = ValuesAfterRanks(xy[2])]
  /\ op' = "spearman"
  /\ UNCHANGED <<hist, task, loop>>

Kendall ==
  /\ op = "idle"
  /\ \E x \in Inputs, y \in Inputs, cdf \in CdfSamples :
       /\ args' = [NoArgs EXCEPT !.x = x, !.y = y]
       /\ res' = calculateKendallTau(x, y, cdf)
       /\ mem' = [NoMem EXCEPT !.x = x, !.y = y]
  /\ op' = "kendall"
  /\ ranks' = NoRanks
  /\ UNCHANGED <<hist, task, loop>>

Partial ==
  /\ op = "idle"
  /\ \E t \in Triples, cf \in BetaOutcomes :
       /\ args' = [NoArgs EXCEPT !.x = t[1], !.y = t[2], !.z = t[3]]
       /\ res' = calculatePartialCorrelation(t[1], t[2], t[3], cf)
       /\ mem' = [NoMem EXCEPT !.x = t[1], !.y = t[2], !.z = t[3]]
  /\ op' = "partial"
  /\ ranks' = NoRanks
  /\ UNCHANGED <<hist, task, loop>>

Multiple ==
  /\ op = "idle"
  /\ \E call \in MultipleCalls, cf \in BetaOutcomes :
       /\ args' = [NoArgs EXCEPT !.x = call[1], !.ind = call[2]]
       /\ res' = calculateMultipleCorrelation(call[1], call[2], cf)
       /\ mem' = [NoMem EXCEPT !.x = call[1], !.ind = call[2]]
  /\ op' = "multiple"
  /\ ranks' = NoRanks
  /\ UNCHANGED <<hist, task, loop>>

Inverse ==
  /\ op = "idle"
  /\ \E m \in Matrices :
       /\ args' = [NoArgs EXCEPT !.m = m]
       /\ res' = ReturnedMatrix(matrixInverse(ToDoubles(m)))
       /\ mem' = [NoMem EXCEPT !.written = WrittenByInverse(Len(m)),
                               !.returned = ResultObjects(Len(m))]
  /\ op' = "inverse"
  /\ ranks' = NoRanks
  /\ UNCHANGED <<hist, task, loop>>

\* The caller passes the matrix matrixInverse returned to matrixInverse
\* again; args keeps the matrix of the first call.
InverseAgain ==
  /\ op = "inverse"
  /\ res.st = "returned"
  /\ op' = "inverseTwice"
  /\ res' = ReturnedMatrix(matrixInverse(res.matrix))
  /\ UNCHANGED <<args, ranks, mem, hist, task, loop>>

PhaseSpace ==
  /\ op = "idle"
  /\ \E timeSeries \in Series, dimension \in Dimensions, delay \in Delays :
       /\ args' = [NoArgs EXCEPT !.x = timeSeries, !.dimension = dimension,
                                 !.delay = delay]
       /\ res' = ReturnedMatrix(
                   reconstructPhaseSpace(timeSeries, dimension, delay))
       /\ mem' = [NoMem EXCEPT !.x = timeSeries]
  /\ op' = "phaseSpace"
  /\ ranks' = NoRanks
  /\ UNCHANGED <<hist, task, loop>>

FFT ==
  /\ op = "idle"
  /\ \E n \in SpectrumLengths :
       \E amplitudes \in [1..n -> Magnitudes] :
         /\ args' = [NoArgs EXCEPT !.x = Ramp(n)]
         /\ res' = performFFT(Ramp(n), amplitudes)
  /\ op' = "fft"
  /\ ranks' = NoRanks
  /\ mem' = NoMem
  /\ UNCHANGED <<hist, task, loop>>

Lagrange ==
  /\ op = "idle"
  /\ \E knownPoints \in PointLists, targetX \in Targets :
       /\ args' = [NoArgs EXCEPT !.knownPoints = knownPoints,
                                 !.targetX = targetX]
       /\ res' = lagrangeInterpolation(knownPoints, targetX)
  /\ op' = "lagrange"
  /\ ranks' = NoRanks
  /\ mem' = NoMem
  /\ UNCHANGED <<hist, task, loop>>

RungeKutta ==
  /\ op = "idle"
  /\ \E f \in RhsNames, y0 \in StartValues, t0 \in StartTimes,
        tn \in EndTimes, h \in StepSizes :
       /\ args' = [NoArgs EXCEPT !.f = f, !.y0 = y0, !.t0 = t0, !.tn = tn,
                                 !.h = h]
       /\ res' = rungeKutta4(f, y0, t0, tn, h)
  /\ op' = "rungeKutta"
  /\ ranks' = NoRanks
  /\ mem' = NoMem
  /\ UNCHANGED <<hist, task, loop>>

\* The call has returned (or thrown) to its caller; the engine keeps nothing.
Return ==
  /\ op # "idle"
  /\ op' = "idle"
  /\ args' = NoArgs
  /\ res' = NoResult
  /\ ranks' = NoRanks
  /\ mem' = NoMem
  /\ UNCHANGED <<hist, task, loop>>

Next ==
  \/ Inverse
  \/ InverseAgain
  \/ PhaseSpace
  \/ RungeKutta
  \/ FFT
  \/ Lagrange
  \/ Kendall
  \/ Pearson
  \/ Spearman
  \/ Partial
  \/ Multiple
  \/ Return

Spec == Init /\ [][Next]_vars

\* ------------------------------------------------------------- call graph
\* The functions a function calls: the this.f(...) in its body, and
\* Math.random.  The two classes of the engine hold no field, so a call
\* reads its arguments and what its callees return, and nothing else.
ThisCalls(f) ==
  CASE f = "calculatePearsonCorrelation" -> {"calculateTDistributionPValue"}
    [] f = "calculateSpearmanCorrelation" ->
         {"calculateRanks", "calculatePearsonCorrelation"}
    [] f = "calculateKendallTau" -> {"normalCDF"}
    [] f = "calculatePartialCorrelation" ->
         {"calculatePearsonCorrelation", "calculateTDistributionPValue"}
    [] f = "calculateMultipleCorrelation" ->
         {"createCorrelationMatrix", "matrixInverse",
          "calculateFDistributionPValue"}
    [] f = "createCorrelationMatrix" -> {"calculatePearsonCorrelation"}
    [] f = "normalCDF" -> {"erf"}
    [] f = "calculateTDistributionPValue" -> {"incompleteBeta"}
    [] f = "calculateFDistributionPValue" -> {"incompleteBeta"}
    [] f = "incompleteBeta" -> {"gammaLn", "betaCF"}
    [] f = "performFFT" -> {"findDominantFrequencies"}
    [] f = "waveletTransform" -> {"morletWavelet"}
    \* MetricsAnalyzer, the helper of the user interface.
    [] f = "findCorrelations" -> {"extractMetrics", "calculateCorrelation"}
    [] f = "calculateCorrelation" -> {"Math.random"}
    [] OTHER -> {}
\* createCorrelationMatrix filling its cells from the mock.
Callees_MockInMatrix(f) ==
  IF f = "createCorrelationMatrix" THEN {"calculateCorrelation"}
  ELSE ThisCalls(f)
Callees(f) == ThisCalls(f)

RECURSIVE Reach(_, _)
\* The functions a call of one of `frontier` can run, `seen` included.
Reach(frontier, seen) ==
  IF frontier \subseteq seen THEN seen
  ELSE Reach(UNION {Callees(f) : f \in frontier}, seen \cup frontier)

\* The public methods of CorrelationAnalysis and of AdvancedAnalysis.
CoreEntries ==
  {"calculatePearsonCorrelation", "calculateSpearmanCorrelation",
   "calculateKendallTau", "calculatePartialCorrelation",
   "calculateMultipleCorrelation", "performFFT", "lagrangeInterpolation",
   "laplaceTransform", "waveletTransform", "rungeKutta4",
   "reconstructPhaseSpace"}

\* --------------------------------------------------------- repeated calls
\* A caller that keeps one call and its result and goes on calling.  In
\* one run of the program the build is one and the special functions are
\* functions of their arguments: hist.special holds the outcome of betaCF
\* and the value of normalCDF for the whole behaviour.
CoreOps == {"pearson", "spearman", "kendall", "partial", "multiple",
            "inverse", "phaseSpace"}
Result(o, a, special) ==
  CASE o = "pearson" -> calculatePearsonCorrelation(a.x, a.y, special.cf)
    [] o = "spearman" -> calculateSpearmanCorrelation(a.x, a.y, special.cf)
    [] o = "kendall" -> calculateKendallTau(a.x, a.y, special.cdf)
    [] o = "partial" ->
         calculatePartialCorrelation(a.x, a.y, a.z, special.cf)
    [] o = "multiple" ->
         calculateMultipleCorrelation(a.x, a.ind, special.cf)
    [] o = "inverse" -> ReturnedMatrix(matrixInverse(ToDoubles(a.m)))
    [] o = "phaseSpace" ->
         ReturnedMatrix(reconstructPhaseSpace(a.x, a.dimension, a.delay))

\* The calls of this caller.
RepeatSeqs == {<<0, 1, 1>>, <<1, 0, 1>>}
RepeatMatrices ==
  {<<<<0, 1>>, <<1, 0>>>>, <<<<1, 1>>, <<0, 1>>>>, <<<<1, 1>>, <<1, 1>>>>}
RepeatCalls ==
  {<<o, [NoArgs EXCEPT !.x = x, !.y = y]>> :
     o \in {"pearson", "spearman", "kendall"},
     x \in RepeatSeqs, y \in RepeatSeqs}
  \cup {<<"partial", [NoArgs EXCEPT !.x = x, !.y = y, !.z = z]>> :
          x \in RepeatSeqs, y \in RepeatSeqs, z \in RepeatSeqs}
  \cup {<<"multiple", [NoArgs EXCEPT !.x = x, !.ind = <<y>>]>> :
          x \in RepeatSeqs, y \in RepeatSeqs}
  \cup {<<"inverse", [NoArgs EXCEPT !.m = m]>> : m \in RepeatMatrices}
  \cup {<<"phaseSpace",
          [NoArgs EXCEPT !.x = x, !.dimension = d, !.delay = tau]>> :
          x \in RepeatSeqs, d \in {2}, tau \in {0, 1}}
\* Values of Math.random().
RandomSamples == {Int2F(0), Fin(1, 2)}

\* One more call since the call the caller keeps.
Later(h) ==
  IF h.op = "none" THEN h
  ELSE [h EXCEPT !.between = IF h.between < 2 THEN h.between + 1 ELSE 2]

RepeatInit ==
  /\ op = "idle"
  /\ args = NoArgs
  /\ res = NoResult
  /\ ranks = NoRanks
  /\ mem = NoMem
  /\ \E cf \in BetaOutcomes, cdf \in CdfSamples :
       hist = [NoHist EXCEPT !.special = [cf |-> cf, cdf |-> cdf]]
  /\ task = NoTask
  /\ loop = NoLoop

\* A call of the engine.
Call ==
  /\ op = "idle"
  /\ \E c \in RepeatCalls :
       /\ op' = c[1]
       /\ args' = c[2]
       /\ res' = Result(c[1], c[2], hist.special)
  /\ hist' = Later(hist)
  /\ UNCHANGED <<ranks, mem, task, loop>>

\* MetricsAnalyzer.calculateCorrelation, the mock of the user interface:
\* coefficient = Math.random() * 2 - 1, significance = Math.random().
MockCorrelation ==
  /\ op = "idle"
  /\ \E r1 \in RandomSamples, r2 \in RandomSamples :
       res' = [NoResult EXCEPT
                 !.st = "returned",
                 !.coefficient = F2S(FSub(FMul(r1, Int2F(2)), Int2F(1))),
                 !.pValue = r2]
  /\ op' = "mock"
  /\ hist' = Later(hist)
  /\ UNCHANGED <<args, ranks, mem, task, loop>>

\* The call returns and the caller keeps it with its result.
ReturnAndKeep ==
  /\ op # "idle"
  /\ hist.op = "none"
  /\ hist' = [hist EXCEPT !.op = op, !.args = args, !.res = res]
  /\ op' = "idle"
  /\ args' = NoArgs
  /\ res' = NoResult
  /\ UNCHANGED <<ranks, mem, task, loop>>

RepeatNext ==
  \/ Call
  \/ MockCorrelation
  \/ ReturnAndKeep
  \/ Return

RepeatSpec == RepeatInit /\ [][RepeatNext]_vars

\* ---------------------------------------------------------- the event loop
\* The async functions of the engine as the JavaScript event loop runs them:
\* a call runs synchronously up to its first await; at an await the rest of
\* the function is queued as a microtask, and whatever another task has
\* queued before runs first.
AsyncOps == {"pearson", "spearman", "partial", "multiple", "matrix", "wavelet"}
VariableCounts == {0, 1, 2, 3, 4}
MaxInterleaved == 2

\* Array(n).fill(0).map(() => Array(n).fill(0)); a cell holds 0 or, as
\* <<i, j>>, the coefficient of the pairwise computation for (i, j).
ZeroMatrix(n) == [a \in 1..n |-> [b \in 1..n |-> 0]]
NoWriters(n) == [a \in 1..n |-> [b \in 1..n |-> {}]]

\* The awaits of calculatePartialCorrelation, in order.
AfterAwait(pc) ==
  IF pc = "rxy" THEN "rxz" ELSE IF pc = "rxz" THEN "ryz" ELSE "done"

\* for (let j = i; ...): the column the inner loop starts at in row i, and
\* the loop started at column 0.
FirstColumn_Zero(i) == 1
FirstColumn(i) == i

\* createCorrelationMatrix is called for n variables: the buffer is built
\* and, unless n = 0, calculatePearsonCorrelation is called for (0, 0) and
\* awaited.  caller is "matrix" for a direct call and "multiple" when
\* calculateMultipleCorrelation awaits it.
EnterMatrix(caller, n) ==
  [NoTask EXCEPT !.op = caller, !.k = n,
                 !.matrix = ZeroMatrix(n), !.writers = NoWriters(n),
                 !.pc = IF n = 0
                        THEN (IF caller = "multiple" THEN "matrix" ELSE "done")
                        ELSE "cell",
                 !.i = IF n = 0 THEN 0 ELSE 1,
                 !.j = IF n = 0 THEN 0 ELSE FirstColumn(1)]

\* matrix[i][j] = matrix[j][i] = correlation.coefficient, then the next
\* pass of the loops: the next call of calculatePearsonCorrelation and its
\* await, or the return of the buffer.
WriteAndAdvance(t) ==
  LET i == t.i
      j == t.j
      m1 == [t.matrix EXCEPT ![j][i] = <<i, j>>]
      m2 == [m1 EXCEPT ![i][j] = <<i, j>>]
      w1 == [t.writers EXCEPT ![j][i] = @ \cup {<<i, j>>}]
      w2 == [w1 EXCEPT ![i][j] = @ \cup {<<i, j>>}]
      written == [t EXCEPT !.matrix = m2, !.writers = w2]
  IN IF j < t.k THEN [written EXCEPT !.j = j + 1]
     ELSE IF i < t.k
       THEN [written EXCEPT !.i = i + 1, !.j = FirstColumn(i + 1)]
     ELSE [written EXCEPT
             !.pc = IF t.op = "multiple" THEN "matrix" ELSE "done"]

\* A call of an async function of the engine: its body up to the first
\* await.  calculatePearsonCorrelation, calculateSpearmanCorrelation and
\* waveletTransform contain no await and run to their return.
\* calculateMultipleCorrelation passes [dependent, ...independents], at
\* least one variable.
StartCall ==
  /\ task.op = "none"
  /\ \E o \in AsyncOps, n \in VariableCounts :
       task' = IF o \in {"pearson", "spearman", "wavelet"}
               THEN [NoTask EXCEPT !.op = o, !.pc = "done"]
               ELSE IF o = "partial"
               THEN [NoTask EXCEPT !.op = o, !.pc = "rxy"]
               ELSE IF o = "multiple" /\ n = 0
               THEN EnterMatrix(o, 1)
               ELSE EnterMatrix(o, n)
  /\ UNCHANGED <<op, args, res, ranks, mem, hist, loop>>

\* The microtask of the suspended call runs: the function continues after
\* its await up to the next one.
Resume ==
  /\ task.pc \in {"rxy", "rxz", "ryz", "cell", "matrix"}
  /\ task' = IF task.pc = "cell" THEN WriteAndAdvance(task)
             ELSE IF task.pc = "matrix" THEN [task EXCEPT !.pc = "done"]
             ELSE [task EXCEPT !.pc = AfterAwait(task.pc)]
  /\ UNCHANGED <<op, args, res, ranks, mem, hist, loop>>

\* Code of another task runs while the call is suspended at an await.
OtherTask ==
  /\ task.pc \in {"rxy", "rxz", "ryz", "cell", "matrix"}
  /\ task.interleaved < MaxInterleaved
  /\ task' = [task EXCEPT !.interleaved = @ + 1]
  /\ UNCHANGED <<op, args, res, ranks, mem, hist, loop>>

\* The promise of the call is resolved and its result taken.
Settle ==
  /\ task.pc = "done"
  /\ task' = NoTask
  /\ UNCHANGED <<op, args, res, ranks, mem, hist, loop>>

AsyncNext ==
  \/ StartCall
  \/ Resume
  \/ OtherTask
  \/ Settle

AsyncSpec == Init /\ [][AsyncNext]_vars

\* --------------------------------------------------- the continued fraction
\* betaCF iteration by iteration, for positive a and b (the denominators
\* (qam + m2) * (a + m2), (a + m2) * (qap + m2) and qap are then positive).
\* The running values c and d are kept by magnitude: "nan", "zero", "tiny"
\* (nonzero, below epsilon) or "fine" (epsilon or more).  For x = 0 every aa
\* is 0 and the values are exact; for NaN everything is NaN; for any other
\* x the magnitudes and the outcome of the test of del are whatever the
\* arithmetic gives, here: any.
MaxIterations == 200
Builds == {"const", "var"}
BetaArguments == {NaN, Int2F(0), Fin(1, 2)}

\* The magnitudes 1 + aa * v and 1 + aa / v can have.
Updated(v, x) ==
  IF IsNaN(x) \/ v = "nan" THEN {"nan"}
  ELSE IF x.n = 0 THEN {"fine"}
  ELSE {"zero", "tiny", "fine"}
\* if (Math.abs(v) < epsilon) v = epsilon; the test is false for NaN.
Floor(v) == IF v \in {"zero", "tiny"} THEN "fine" ELSE v
\* The magnitudes of 1 / v for a nonzero v.
Reciprocal(v, x) ==
  IF v = "nan" THEN {"nan"}
  ELSE IF x.n = 0 THEN {"fine"}
  ELSE {"tiny", "fine"}
\* Math.abs(del - 1) < epsilon: false for NaN, true for x = 0 (del = 1).
TestOutcomes(x) ==
  IF IsNaN(x) THEN {FALSE} ELSE IF x.n = 0 THEN {TRUE} ELSE {TRUE, FALSE}
\* h when the loop is left.
Estimates(x) ==
  IF IsNaN(x) THEN {NaN} ELSE IF x.n = 0 THEN {Int2F(1)} ELSE BetaSamples

\* The call and the statements before the loop: c = 1, d = 1 - qab * x / qap,
\* the floor, d = 1 / d, h = d.
EnterBetaCF ==
  /\ loop.pc = "idle"
  /\ \E build \in Builds, x \in BetaArguments :
       \E d0 \in Updated("fine", x) :
         \E d1 \in Reciprocal(Floor(d0), x) :
           loop' = [NoLoop EXCEPT !.pc = "loop", !.build = build, !.x = x,
                                  !.c = "fine", !.d = d1,
                                  !.dividedByZero = (Floor(d0) = "zero")]
  /\ UNCHANGED <<op, args, res, ranks, mem, hist, task>>

\* One pass of the loop in a build where aa can be assigned: the even step,
\* the odd step and the test of del.
Iterate ==
  /\ loop.pc = "loop"
  /\ loop.build = "var"
  /\ ~loop.converged
  /\ loop.m < MaxIterations
  /\ \E da \in Updated(loop.d, loop.x), ca \in Updated(loop.c, loop.x) :
       \E db \in Reciprocal(Floor(da), loop.x) :
         \E dc \in Updated(db, loop.x), cb \in Updated(Floor(ca), loop.x) :
           \E dd \in Reciprocal(Floor(dc), loop.x),
              converged \in TestOutcomes(loop.x) :
             loop' = [loop EXCEPT
                        !.m = @ + 1,
                        !.c = Floor(cb),
                        !.d = dd,
                        !.converged = converged,
                        !.dividedByZero =
                          \/ @
                          \/ loop.c = "zero"
                          \/ Floor(da) = "zero"
                          \/ Floor(ca) = "zero"
                          \/ Floor(dc) = "zero"]
  /\ UNCHANGED <<op, args, res, ranks, mem, hist, task>>

\* The first pass of the loop in a build that keeps `const aa`: the even
\* step runs, then the assignment `aa = ...` throws a TypeError.
AssignToConst ==
  /\ loop.pc = "loop"
  /\ loop.build = "const"
  /\ loop.m < MaxIterations
  /\ \E da \in Updated(loop.d, loop.x), ca \in Updated(loop.c, loop.x) :
       \E db \in Reciprocal(Floor(da), loop.x) :
         loop' = [loop EXCEPT
                    !.pc = "threw",
                    !.m = @ + 1,
                    !.c = Floor(ca),
                    !.d = db,
                    !.dividedByZero =
                      @ \/ loop.c = "zero" \/ Floor(da) = "zero"]
  /\ UNCHANGED <<op, args, res, ranks, mem, hist, task>>

\* The loop is left by `break` or because m has passed maxIterations:
\* return h, a number.
ReturnEstimate ==
  /\ loop.pc = "loop"
  /\ loop.build = "var"
  /\ loop.converged \/ loop.m = MaxIterations
  /\ \E h \in Estimates(loop.x) :
       loop' = [loop EXCEPT !.pc = "returned", !.result = h]
  /\ UNCHANGED <<op, args, res, ranks, mem, hist, task>>

\* incompleteBeta has the value, or the exception passes through it.
LeaveBetaCF ==
  /\ loop.pc \in {"returned", "threw"}
  /\ loop' = NoLoop
  /\ UNCHANGED <<op, args, res, ranks, mem, hist, task>>

BetaNext ==
  \/ EnterBetaCF
  \/ Iterate
  \/ AssignToConst
  \/ ReturnEstimate
  \/ LeaveBetaCF

BetaSpec == Init /\ [][BetaNext]_vars

\* ----------------------------------------------------- notions of the claims
CorrelationOps == {"pearson", "spearman", "kendall", "partial", "multiple"}
EqualLength == Len(args.x) = Len(args.y)
IsConstant(values) == \A i, j \in 1..Len(values) : values[i] = values[j]
\* The Pearson coefficient of the call's x and y is exactly 1 or -1.
PerfectlyCorrelated ==
  /\ Len(args.x) >= 1
  /\ EqualLength
  /\ \/ SIsOne(PearsonR(args.x, args.y))
     \/ SIsMinusOne(PearsonR(args.x, args.y))
FailedWith(e) == res.st = "threw" /\ res.err = e
\* The determinant of an integer matrix of dimension at most 3.
Det(m) ==
  IF Len(m) = 0 THEN 1
  ELSE IF Len(m) = 1 THEN m[1][1]
  ELSE IF Len(m) = 2 THEN m[1][1] * m[2][2] - m[1][2] * m[2][1]
  ELSE m[1][1] * (m[2][2] * m[3][3] - m[2][3] * m[3][2])
         - m[1][2] * (m[2][1] * m[3][3] - m[2][3] * m[3][1])
         + m[1][3] * (m[2][1] * m[3][2] - m[2][2] * m[3][1])
AllFinite(matrix) ==
  \A i \in 1..Len(matrix) : \A j \in 1..Len(matrix[i]) : IsFinite(matrix[i][j])
\* Twice the mean of the 1-based positions that the elements equal to
\* values[i] occupy in the sorted sequence: with L smaller elements and E
\* equal ones these are L + 1 .. L + E.
TwiceAverageRank(values, i) ==
  LET L == Cardinality({j \in 1..Len(values) : values[j] < values[i]})
      E == Cardinality({j \in 1..Len(values) : values[j] = values[i]})
  IN 2 * L + E + 1

\* ------------------------------------------------------------------ claims
\* C1: for equal-length x, y with n >= 3 and a Pearson coefficient of exactly
\* 1 or -1, calculatePearsonCorrelation returns pValue = 0 and
\* significant = true.
C1_PerfectIsSignificant ==
  (op = "pearson" /\ Len(args.x) >= 3 /\ PerfectlyCorrelated)
    => /\ res.st = "returned"
       /\ res.pValue = Int2F(0)
       /\ res.significant

\* C2: no operation ends in NaN or Infinity: every result that is returned
\* has finite numeric fields only.
C2_NoSilentNonFinite ==
  res.st = "returned"
    => /\ op \in CorrelationOps
            => SIsFinite(res.coefficient) /\ IsFinite(res.pValue)
       /\ op = "inverse" => AllFinite(res.matrix)

\* C3: matrixInverse of a singular matrix fails with SingularMatrixError and
\* returns no matrix.
C3_SingularIsRejected ==
  (op = "inverse" /\ Len(args.m) >= 1 /\ Det(args.m) = 0)
    => FailedWith("SingularMatrixError")

\* C4: the rank transform of Spearman gives every value the mean of the
\* positions its equals occupy in the sorted sequence.
C4_AverageRanks ==
  op = "spearman"
    => /\ \A i \in 1..Len(args.x) :
            2 * ranks.x[i] = TwiceAverageRank(args.x, i)
       /\ \A i \in 1..Len(args.y) :
            2 * ranks.y[i] = TwiceAverageRank(args.y, i)

\* C5: calculatePearsonCorrelation fails with InvalidInputError whenever
\* n < 3.
C5_SmallSampleIsRejected ==
  (op = "pearson" /\ Len(args.x) < 3) => FailedWith("InvalidInputError")

\* C6: calculatePearsonCorrelation fails with InvalidInputError when one of
\* x and y is constant and the other is not.
C6_ZeroVarianceIsRejected ==
  (/\ op = "pearson"
   /\ EqualLength
   /\ IsConstant(args.x) # IsConstant(args.y))
    => FailedWith("InvalidInputError")

\* C7: Pearson, Spearman and Kendall fail with InvalidInputError when x and
\* y differ in length.
C7_LengthMismatchIsRejected ==
  (op \in {"pearson", "spearman", "kendall"} /\ ~EqualLength)
    => FailedWith("InvalidInputError")

\* C8: for equal-length x, y with n >= 3, a coefficient that
\* calculatePearsonCorrelation returns lies in [-1, 1] and is not NaN.
C8_CoefficientInUnitInterval ==
  (op = "pearson" /\ EqualLength /\ Len(args.x) >= 3 /\ res.st = "returned")
    => SInUnit(res.coefficient)

\* C9: for a non-constant x, calculatePearsonCorrelation(x, x) returns the
\* coefficient 1: whenever it returns, and it returns whenever n >= 3.
C9_SelfCorrelationIsOne ==
  (op = "pearson" /\ args.x = args.y /\ ~IsConstant(args.x))
    => /\ res.st = "returned" => SIsOne(res.coefficient)
       /\ Len(args.x) >= 3 => res.st = "returned"
C9_Witness ==
  /\ op = "pearson"
  /\ args.x = args.y
  /\ ~IsConstant(args.x)
  /\ Len(args.x) = 3
  /\ res.st = "returned"
  /\ SIsOne(res.coefficient)

\* C10: in every result the five correlation operations return, significant
\* is true exactly when pValue < 0.05, strictly.
C10_SignificantIffBelowThreshold ==
  (op \in CorrelationOps /\ res.st = "returned")
    => (res.significant <=>
          \/ res.pValue.k = "fin" /\ 20 * res.pValue.n < res.pValue.d
          \/ res.pValue.k = "inf" /\ res.pValue.n < 0)
\* A result whose pValue is exactly 0.05, not significant.
C10_Witness ==
  /\ op \in CorrelationOps
  /\ res.st = "returned"
  /\ res.pValue = Fin(1, 20)
  /\ ~res.significant

\* C11: for y = a * x + b with a # 0, ties in x allowed, the coefficient
\* calculateSpearmanCorrelation returns is the one calculatePearsonCorrelation
\* returns: 1 for a > 0 and -1 for a < 0.  Stated where the Pearson
\* coefficient of such a pair is defined: x not constant, n >= 3.
C11_SpearmanEqualsPearsonOnLinear ==
  \A a \in Slopes, b \in Intercepts :
    (/\ op = "spearman"
     /\ Len(args.x) >= 3
     /\ ~IsConstant(args.x)
     /\ args.y = Linear(args.x, a, b)
     /\ res.st = "returned")
      => /\ res.coefficient = PearsonR(args.x, args.y)
         /\ a > 0 => SIsOne(res.coefficient)
         /\ a < 0 => SIsMinusOne(res.coefficient)

StrictlyIncreasing(values) ==
  \A i \in 1..(Len(values) - 1) : values[i] < values[i + 1]

\* C12: for all equal-length x, y the coefficient calculateKendallTau
\* returns lies in [-1, 1], and it is 1 when x is strictly increasing and
\* y = x.
C12_KendallInUnitInterval ==
  (op = "kendall" /\ EqualLength /\ res.st = "returned")
    => /\ SInUnit(res.coefficient)
       /\ (StrictlyIncreasing(args.x) /\ args.y = args.x)
            => SIsOne(res.coefficient)

\* C13: calculatePartialCorrelation called with sequences of length n < 4
\* fails with InvalidInputError.
C13_PartialSmallSampleIsRejected ==
  (op = "partial" /\ Len(args.x) < 4) => FailedWith("InvalidInputError")

\* The correlation sub-matrix Rxx of two independents, [[1, r], [r, 1]], is
\* singular: r is 1 or -1.
RxxIsSingular ==
  /\ Len(args.ind) = 2
  /\ \/ SIsOne(PearsonR(args.ind[1], args.ind[2]))
     \/ SIsMinusOne(PearsonR(args.ind[1], args.ind[2]))

\* C14: calculateMultipleCorrelation with a singular Rxx (two identical or
\* perfectly collinear independents) ends with the SingularMatrixError of
\* the inversion step and returns no result.
C14_SingularRxxIsPropagated ==
  (op = "multiple" /\ RxxIsSingular) => FailedWith("SingularMatrixError")

RECURSIVE RowTimesColumn(_, _, _, _, _)
\* The sum over the first k indices of a[i][k] * b[k][j].
RowTimesColumn(a, b, i, j, k) ==
  IF k = 0 THEN Int2F(0)
  ELSE FAdd(RowTimesColumn(a, b, i, j, k - 1), FMul(a[i][k], b[k][j]))
\* The product of two square matrices of one dimension.
MatMul(a, b) ==
  [i \in 1..Len(a) |-> [j \in 1..Len(a) |->
     RowTimesColumn(a, b, i, j, Len(a))]]
LeftHalf(augmented) ==
  LET n == Len(augmented)
  IN [i \in 1..n |-> [j \in 1..n |-> augmented[i][j]]]
\* The augmented system [M | I] of the call's matrix after the elimination.
Reduced == Eliminate(Augment(ToDoubles(args.m)), 1)
NonSingular == Len(args.m) >= 1 /\ Det(args.m) # 0
\* A row swap is needed in the first column: M[0][0] is 0.
ZeroOnDiagonal == Len(args.m) >= 1 /\ args.m[1][1] = 0
Twos == <<<<2, 0>>, <<0, 2>>>>
Halves == <<<<Fin(1, 2), Int2F(0)>>, <<Int2F(0), Fin(1, 2)>>>>

\* C15: for a non-singular square M, matrixInverse returns the right half
\* of the fully reduced augmented system [M | I] (its left half is the
\* identity), and M times the returned matrix is the identity, row swaps
\* included; [[2,0],[0,2]] gives [[0.5,0],[0,0.5]].
C15_InverseOfNonSingular ==
  (op = "inverse" /\ NonSingular)
    => /\ res.st = "returned"
       /\ LeftHalf(Reduced) = Identity(Len(args.m))
       /\ res.matrix = RightHalf(Reduced)
       /\ MatMul(ToDoubles(args.m), res.matrix) = Identity(Len(args.m))
       /\ args.m = Twos => res.matrix = Halves
\* A matrix whose first diagonal entry is 0, inverted after a row swap.
C15_Witness ==
  /\ op = "inverse"
  /\ NonSingular
  /\ ZeroOnDiagonal
  /\ Len(args.m) = 3
  /\ res.st = "returned"
  /\ MatMul(ToDoubles(args.m), res.matrix) = Identity(3)

\* C16: for a well-conditioned (here: non-singular, exactly inverted) M,
\* matrixInverse(matrixInverse(M)) equals M element by element.
C16_InverseIsInvolution ==
  (op = "inverseTwice" /\ NonSingular) => res.matrix = ToDoubles(args.m)
\* A matrix of dimension 3 that is not its own inverse, inverted twice.
C16_Witness ==
  /\ op = "inverseTwice"
  /\ NonSingular
  /\ Len(args.m) = 3
  /\ MatMul(ToDoubles(args.m), ToDoubles(args.m)) # Identity(3)
  /\ res.matrix = ToDoubles(args.m)

Embedded == Len(args.x) - (args.dimension - 1) * args.delay

\* C19: for d >= 1, tau >= 0 and len - (d - 1) * tau > 0,
\* reconstructPhaseSpace returns exactly len - (d - 1) * tau vectors of
\* length d, and component k of vector i is the element
\* series[i + k * tau] (0-based), never undefined.
C19_PhaseSpaceVectors ==
  (/\ op = "phaseSpace"
   /\ args.dimension >= 1
   /\ args.delay >= 0
   /\ Embedded > 0)
    => /\ res.st = "returned"
       /\ Len(res.matrix) = Embedded
       /\ \A i \in 1..Embedded :
            /\ Len(res.matrix[i]) = args.dimension
            /\ \A k \in 1..args.dimension :
                 /\ i + (k - 1) * args.delay \in 1..Len(args.x)
                 /\ res.matrix[i][k] =
                      <<args.x[i + (k - 1) * args.delay]>>
\* A series of length 10 with d = 3 and tau = 2: 6 vectors of length 3.
C19_Witness ==
  /\ op = "phaseSpace"
  /\ Len(args.x) = 10
  /\ args.dimension = 3
  /\ args.delay = 2
  /\ Len(res.matrix) = 6
  /\ \A i \in 1..6 : Len(res.matrix[i]) = 3
  /\ res.matrix[6] = <<<<5>>, <<7>>, <<9>>>>

\* C20: reconstructPhaseSpace fails with InvalidInputError when
\* len - (dimension - 1) * delay is zero or negative.
C20_EmptyRangeIsRejected ==
  (op = "phaseSpace" /\ Embedded <= 0) => FailedWith("InvalidInputError")

\* The call in progress is the call the caller keeps, made again.
SameCallAgain == hist.op = op /\ hist.args = args

StepCount == Ceil(FDiv(FSub(args.tn, args.t0), args.h))
RECURSIVE Power(_, _)
Power(a, k) == IF k = 0 THEN Int2F(1) ELSE FMul(a, Power(a, k - 1))
\* 1 + h + h^2/2 + h^3/6 + h^4/24: what one classic step multiplies y by
\* when y' = y.
Growth(h) ==
  FAdd(FAdd(FAdd(FAdd(Int2F(1), h), FDiv(Power(h, 2), Int2F(2))),
            FDiv(Power(h, 3), Int2F(6))),
       FDiv(Power(h, 4), Int2F(24)))

\* C21: for t0 < tn and h > 0, rungeKutta4 returns t and y of length
\* ceil((tn - t0) / h) + 1 with t[0] = t0, y[0] = y0, t[i + 1] = t[i] + h
\* and y[i + 1] = y[i] + (k1 + 2 k2 + 2 k3 + k4) / 6, every entry
\* assigned.  The classic step is stated by what it gives for the three
\* right-hand sides: y + h for y' = 1, y + h * (t + h / 2) for y' = t and
\* y * (1 + h + h^2/2 + h^3/6 + h^4/24) for y' = y.
C21_RungeKuttaSteps ==
  (op = "rungeKutta" /\ FLt(args.t0, args.tn) /\ FLt(Int2F(0), args.h))
    => /\ res.st = "returned"
       /\ LET t == res.matrix[1]
              y == res.matrix[2]
          IN /\ Len(t) = StepCount + 1
             /\ Len(y) = StepCount + 1
             /\ t[1] = args.t0
             /\ y[1] = args.y0
             /\ \A i \in 1..(StepCount + 1) : IsFinite(t[i]) /\ IsFinite(y[i])
             /\ \A i \in 1..StepCount :
                  /\ t[i + 1] = FAdd(t[i], args.h)
                  /\ args.f = "one" => y[i + 1] = FAdd(y[i], args.h)
                  /\ args.f = "time" =>
                       y[i + 1] =
                         FAdd(y[i],
                              FMul(args.h, FAdd(t[i], FDiv(args.h, Int2F(2)))))
                  /\ args.f = "self" => y[i + 1] = FMul(y[i], Growth(args.h))
\* y' = y from y0 = 1 over [0, 3/2] with h = 1/2: three steps, four entries.
C21_Witness ==
  /\ op = "rungeKutta"
  /\ args.f = "self"
  /\ args.y0 = Int2F(1)
  /\ args.t0 = Int2F(0)
  /\ args.tn = Fin(3, 2)
  /\ args.h = Fin(1, 2)
  /\ res.st = "returned"
  /\ Len(res.matrix[1]) = 4
  /\ Len(res.matrix[2]) = 4
  /\ res.matrix[1][4] = Fin(3, 2)
  /\ res.matrix[2][2] = Fin(633, 384)

\* The largest amplitude of the spectrum returned by the call in progress.
IsMaximum(m, amplitudes) ==
  /\ \E i \in 1..Len(amplitudes) : amplitudes[i] = m
  /\ \A i \in 1..Len(amplitudes) : ~FLt(m, amplitudes[i])
\* The bins whose amplitude is more than a tenth of m.
DominantBins(m, amplitudes) ==
  {i \in 1..Len(amplitudes) : FLt(FDiv(m, Int2F(10)), amplitudes[i])}
\* s lists exactly the frequencies of the bins in b, in increasing bin order.
ListsBins(s, b, frequencies) ==
  /\ Len(s) = Cardinality(b)
  /\ \A k \in 1..Len(s) :
       \E i \in b : /\ s[k] = frequencies[i]
                    /\ Cardinality({j \in b : j < i}) = k - 1

\* C22: performFFT returns frequencies and amplitudes of the length of the
\* input series, and the dominant frequencies are exactly those of the bins
\* whose amplitude is strictly more than 10% of the largest amplitude, in
\* increasing bin order: the bin of a positive maximum is dominant, and no
\* bin is dominant in an all-zero spectrum.
C22_DominantFrequencies ==
  op = "fft"
    => /\ res.st = "returned"
       /\ LET frequencies == res.matrix[1]
              amplitudes == res.matrix[2]
              dominant == res.matrix[3]
          IN /\ Len(frequencies) = Len(args.x)
             /\ Len(amplitudes) = Len(args.x)
             /\ \A i \in 1..Len(frequencies) :
                  frequencies[i] = Fin(i - 1, Len(args.x))
             /\ \A m \in Magnitudes :
                  IsMaximum(m, amplitudes) =>
                    /\ ListsBins(dominant, DominantBins(m, amplitudes),
                                 frequencies)
                    /\ FLt(Int2F(0), m) =>
                         \A i \in 1..Len(amplitudes) :
                           amplitudes[i] = m =>
                             \E k \in 1..Len(dominant) :
                               dominant[k] = frequencies[i]
                    /\ m = Int2F(0) => dominant = << >>
\* Amplitudes 1, 10, 0, 5: the maximum is 10, the bin at exactly a tenth of
\* it is left out, bins 1 and 3 (frequencies 1/4 and 3/4) are dominant.
C22_Witness ==
  /\ op = "fft"
  /\ Len(args.x) = 4
  /\ res.st = "returned"
  /\ res.matrix[2] = <<Int2F(1), Int2F(10), Int2F(0), Int2F(5)>>
  /\ res.matrix[3] = <<Fin(1, 4), Fin(3, 4)>>

\* The x of the points are pairwise distinct.
DistinctAbscissas(points) ==
  \A i, j \in 1..Len(points) : points[i].x = points[j].x => i = j

\* C26: lagrangeInterpolation is exact at the known points: with pairwise
\* distinct x, a target equal to the x of a known point gives that point's
\* y, and a single point gives its y for every target.
C26_LagrangeExactAtKnownPoints ==
  (op = "lagrange" /\ DistinctAbscissas(args.knownPoints))
    => /\ res.st = "returned"
       /\ \A k \in 1..Len(args.knownPoints) :
            args.targetX = args.knownPoints[k].x
              => res.value = args.knownPoints[k].y
       /\ Len(args.knownPoints) = 1 => res.value = args.knownPoints[1].y
\* Three points (2, 1), (0, 2), (1, 2) evaluated at the x of the last one.
C26_Witness ==
  /\ op = "lagrange"
  /\ Len(args.knownPoints) = 3
  /\ DistinctAbscissas(args.knownPoints)
  /\ args.knownPoints[1] = [x |-> Int2F(2), y |-> Int2F(1)]
  /\ args.knownPoints[3] = [x |-> Int2F(1), y |-> Int2F(2)]
  /\ args.targetX = Int2F(1)
  /\ res.st = "returned"
  /\ res.value = Int2F(2)

\* The unordered pairs {i, j} of positions of a sequence of length n.
UnorderedPairs(n) == {s \in SUBSET (1..n) : Cardinality(s) = 2}
\* (x[j] - x[i]) * (y[j] - y[i]) for the pair s, the same in either order.
PairProduct(x, y, s) ==
  LET i == CHOOSE i \in s : TRUE
      j == CHOOSE j \in s : j # i
  IN (x[j] - x[i]) * (y[j] - y[i])
ConcordantPairs(x, y) ==
  {s \in UnorderedPairs(Len(x)) : PairProduct(x, y, s) > 0}
DiscordantPairs(x, y) ==
  {s \in UnorderedPairs(Len(x)) : PairProduct(x, y, s) < 0}

\* C28: for x and y of one length n, calculateKendallTau counts each of the
\* n(n-1)/2 unordered pairs once, as concordant when the product of its
\* differences is positive, as discordant when it is negative and as
\* neither when it is 0, so that C + D <= n(n-1)/2, and it returns
\* tau = (C - D) / (n(n-1)/2).
C28_KendallPairCounting ==
  (op = "kendall" /\ EqualLength)
    => LET n == Len(args.x)
           C == Cardinality(ConcordantPairs(args.x, args.y))
           D == Cardinality(DiscordantPairs(args.x, args.y))
       IN /\ res.st = "returned"
          /\ 2 * Cardinality(UnorderedPairs(n)) = n * (n - 1)
          /\ Concordant(args.x, args.y) = C
          /\ Discordant(args.x, args.y) = D
          /\ 2 * (C + D) <= n * (n - 1)
          /\ res.coefficient = F2S(FDiv(Int2F(C - D), Fin(n * (n - 1), 2)))
\* x = 0, 1, 2 against y = 0, 1, 1: two concordant pairs and one pair tied
\* in y; tau = 2/3.
C28_Witness ==
  /\ op = "kendall"
  /\ args.x = <<0, 1, 2>>
  /\ args.y = <<0, 1, 1>>
  /\ res.st = "returned"
  /\ Cardinality(ConcordantPairs(args.x, args.y)) = 2
  /\ Cardinality(DiscordantPairs(args.x, args.y)) = 0
  /\ res.coefficient = F2S(Fin(2, 3))

\* A call whose p-value helper gets a degrees-of-freedom argument <= 0:
\* Pearson with n <= 2 (df = n - 2), partial correlation with n <= 3
\* (df = n - 3), multiple correlation with p = 0 or n - p - 1 <= 0.
NonPositiveDf ==
  \/ op = "pearson" /\ Len(args.x) <= 2
  \/ op = "partial" /\ Len(args.x) <= 3
  \/ op = "multiple" /\ (Len(args.ind) = 0
                           \/ Len(args.x) - Len(args.ind) - 1 <= 0)

\* C24: a log-gamma or degrees-of-freedom argument <= 0 is surfaced as
\* DomainError: Pearson with n <= 2, partial correlation with n <= 3 and
\* multiple correlation with p = 0 or n - p - 1 <= 0 fail with DomainError
\* and return no number.
C24_NonPositiveDfIsDomainError ==
  NonPositiveDf => FailedWith("DomainError")

RECURSIVE AfterSteps(_, _)
\* The augmented system after the elimination steps for columns 1..k.
AfterSteps(augmented, k) ==
  IF k = 0 THEN augmented
  ELSE EliminationStep(AfterSteps(augmented, k - 1), k)
\* Row sel is the first row of largest magnitude in column i among the rows
\* i..n of the augmented system.
FirstLargest(augmented, i, sel) ==
  /\ sel \in i..Len(augmented)
  /\ \A r \in i..Len(augmented) :
       ~FAbsGt(augmented[r][i], augmented[sel][i])
  /\ \A r \in i..(sel - 1) : FAbsGt(augmented[sel][i], augmented[r][i])
\* Column i is 1 in row i and 0 in every other row.
UnitColumn(augmented, i) ==
  \A r \in 1..Len(augmented) :
    augmented[r][i] = Int2F(IF r = i THEN 1 ELSE 0)

\* C27: at every elimination step i matrixInverse swaps into row i the
\* first row of largest magnitude in column i among the rows from i on,
\* never a row above i, and after the step column i is 1 in row i and 0 in
\* every other row.
C27_PartialPivoting ==
  op = "inverse"
    => \A i \in 1..Len(args.m) :
         LET before == AfterSteps(Augment(ToDoubles(args.m)), i - 1)
             sel == MaxRow(before, i)
         IN /\ FirstLargest(before, i, sel)
            /\ SwapRows(before, i, sel)[i] = before[sel]
            /\ UnitColumn(AfterSteps(Augment(ToDoubles(args.m)), i), i)

\* C25: no operation of the engine suspends: a call of Pearson, Spearman,
\* partial or multiple correlation, of the wavelet transform or of the
\* construction of the correlation matrix is never found waiting at an
\* await, and no code of another task runs between its start and its
\* result.
C25_NoOperationSuspends ==
  task.op \in AsyncOps => (task.pc = "done" /\ task.interleaved = 0)

\* The pairwise computation that owns cell (a, b): the one for the pair in
\* increasing order.
Owner(a, b) == IF a <= b THEN <<a, b>> ELSE <<b, a>>
\* The loops of createCorrelationMatrix have ended.
MatrixBuilt == task.op \in {"matrix", "multiple"} /\ task.pc \in {"matrix", "done"}

\* C30: in createCorrelationMatrix over k variables the computation for
\* (i, j), i <= j, writes cells (i, j) and (j, i) only, no cell is written
\* by two computations, and when the loops end every cell has been written
\* and the matrix is symmetric.
C30_CellOwnership ==
  task.op \in {"matrix", "multiple"}
    => /\ \A a, b \in 1..task.k : task.writers[a][b] \subseteq {Owner(a, b)}
       /\ MatrixBuilt =>
            \A a, b \in 1..task.k :
              /\ task.writers[a][b] = {Owner(a, b)}
              /\ task.matrix[a][b] = Owner(a, b)
              /\ task.matrix[a][b] = task.matrix[b][a]
\* Four variables, all sixteen cells written by their ten owners, with
\* another task's code run in between.
C30_Witness ==
  /\ task.op = "matrix"
  /\ task.pc = "done"
  /\ task.k = 4
  /\ task.interleaved = 2
  /\ task.writers[4][2] = {<<2, 4>>}
  /\ task.matrix[2][4] = task.matrix[4][2]
  /\ \A a, b \in 1..4 : task.writers[a][b] # {}

\* The value betaCF returned carries a flag that marks it as not converged.
FlaggedNonConverged(v) ==
  /\ "converged" \in DOMAIN v
  /\ v.converged = FALSE

\* C23: when betaCF has run through all 200 iterations without the test
\* |del - 1| < 1e-8 succeeding, it does not raise and returns its estimate
\* together with a flag that marks the value as non-converged.
C23_NonConvergedIsFlagged ==
  (loop.pc \in {"returned", "threw"} /\ loop.m = MaxIterations
     /\ ~loop.converged)
    => /\ loop.pc = "returned"
       /\ FlaggedNonConverged(loop.result)

\* C29: betaCF performs at most 200 iterations, leaves the loop early only
\* when |del - 1| < 1e-8, and floors c and d at 1e-8 before every
\* reciprocal or division, so that no step divides by zero.
C29_BetaCFTerminates ==
  /\ loop.m <= MaxIterations
  /\ (loop.pc \in {"returned", "threw"} /\ loop.m < MaxIterations)
       => (loop.pc = "returned" /\ loop.converged)
  /\ ~loop.dividedByZero
  /\ loop.pc = "loop" => loop.c \in {"fine", "nan"}

=============================================================================
